---- MODULE Spec2Model ----
(***************************************************************************)
(* Model of docs/conf.py of infocyph/ReqShield: the version resolution     *)
(* get_version() (lines 13-25) and the module-level assignments of         *)
(* version and release (lines 27-28), together with the child process      *)
(* that Popen starts.                                                      *)
(*                                                                         *)
(* A Python str is a tuple of one-character strings; the bytes a child     *)
(* writes to its standard output are a tuple of byte values (0..255).      *)
(***************************************************************************)
EXTENDS Integers, Sequences, FiniteSets, TLC

\* Longest output (in bytes) the child process writes in the model.
MaxOut == 3

----------------------------------------------------------------------------
(* Python values *)

\* The None object: distinct from every str (whose elements are one character long).
None == <<"<None>">>

\* No exception has been raised in the try block.
NoExc == "NoExc"

\* The literal "latest" of lines 23 and 25.
latest == <<"l", "a", "t", "e", "s", "t">>

\* The literal "True" of line 15.
TrueLiteral == <<"T", "r", "u", "e">>

\* The characters str.strip() removes when called without arguments.
Whitespace == {" ", "\t", "\n", "\r", "\f"}

\* bool(x) for x a str or None: `if v:` (line 17) and the left operand of `or`.
Truthy_notNone(x) == x # None
Truthy(x) == x # None /\ x # <<>>

\* `a or b` (lines 22 and 23).
PyOr_first(a, b) == a
PyOr(a, b) == IF Truthy(a) THEN a ELSE b

\* os.environ.get(name): the value, or None when the variable is unset.
EnvGet(env, name) == IF name \in DOMAIN env THEN env[name] ELSE None

\* The test of line 15.
HostedFlagSet_truthy(env) == Truthy(EnvGet(env, "READTHEDOCS"))
HostedFlagSet(env) == EnvGet(env, "READTHEDOCS") = TrueLiteral

\* str.lstrip(): drop characters from the left while they are whitespace.
RECURSIVE LStrip(_)
LStrip(s) == IF s # <<>> /\ Head(s) \in Whitespace THEN LStrip(Tail(s)) ELSE s

\* str.rstrip(): drop characters from the right while they are whitespace.
RECURSIVE RStrip(_)
RStrip(s) ==
  IF s # <<>> /\ s[Len(s)] \in Whitespace THEN RStrip(SubSeq(s, 1, Len(s) - 1)) ELSE s

\* str.strip() of line 22.
Strip_leftOnly(s) == LStrip(s)
Strip(s) == RStrip(LStrip(s))

\* The value `return v` hands back on line 18.
HostedReturn_stripped(val) == Strip(val)
HostedReturn(val) == val

----------------------------------------------------------------------------
(* The pipe opened with universal_newlines=True (line 21) *)

\* The bytes the child writes in the model: 'a', LF, CR, and 0xFF (not valid UTF-8).
Bytes == {97, 10, 13, 255}

\* The character an ASCII byte decodes to.
ByteChar == (97 :> "a") @@ (32 :> " ") @@ (10 :> "\n") @@ (13 :> "\r")

\* The text-mode decoder accepts the output: no byte is outside the encoding.
Decodable(bs) == \A i \in 1..Len(bs) : bs[i] \in DOMAIN ByteChar

\* The text the bytes decode to.
Decode(bs) == [i \in 1..Len(bs) |-> ByteChar[bs[i]]]

\* Universal-newline translation of text mode: "\r\n" and a lone "\r" become "\n".
RECURSIVE UniversalNewlines(_)
UniversalNewlines(s) ==
  IF s = <<>> THEN <<>>
  ELSE IF Head(s) = "\r"
       THEN IF Len(s) >= 2 /\ s[2] = "\n"
            THEN <<"\n">> \o UniversalNewlines(SubSeq(s, 3, Len(s)))
            ELSE <<"\n">> \o UniversalNewlines(Tail(s))
       ELSE <<Head(s)>> \o UniversalNewlines(Tail(s))

\* pipe.stdout.read() at end of file: everything written, decoded and translated.
TextRead(bs) == UniversalNewlines(Decode(bs))

----------------------------------------------------------------------------
(* Exceptions *)

\* The base class of each exception class that the calls of the try block can raise.
ExcParent ==
  [UnicodeDecodeError |-> "ValueError", ValueError |-> "Exception",
   OSError |-> "Exception", Exception |-> "BaseException",
   BaseException |-> "object"]

\* issubclass(c, base).
RECURSIVE IsSubclass(_, _)
IsSubclass(c, base) ==
  \/ c = base
  \/ c \in DOMAIN ExcParent /\ IsSubclass(ExcParent[c], base)

\* The clause `except Exception` of line 24 handles e.
Catches_OSErrorOnly(e) == IsSubclass(e, "OSError")
Catches(e) == IsSubclass(e, "Exception")

\* What Popen(...) can raise: the shell cannot be started.
PopenErrors == {"OSError"}

----------------------------------------------------------------------------
(* Inputs *)

\* Values of READTHEDOCS tried (the variable may also be unset).
FlagValues ==
  { <<>>, TrueLiteral, <<"t", "r", "u", "e">>, <<"1">>, <<"T", "R", "U", "E">> }

\* Values of READTHEDOCS_VERSION tried (the variable may also be unset).
VersionValues == { <<>>, <<" ", "v", "\n">>, <<"v">> }

\* The environments: every choice of set/unset variables and of their values.
Environments ==
  UNION { [D -> FlagValues \cup VersionValues] : D \in SUBSET {"READTHEDOCS", "READTHEDOCS_VERSION"} }

EnvOK(env) ==
  /\ "READTHEDOCS" \in DOMAIN env => env["READTHEDOCS"] \in FlagValues
  /\ "READTHEDOCS_VERSION" \in DOMAIN env => env["READTHEDOCS_VERSION"] \in VersionValues

----------------------------------------------------------------------------
(* State *)

VARIABLES
  environ,        \* os.environ, restricted to the two variables read
  pc,             \* the line about to be executed
  v,              \* the local v of get_version
  exc,            \* the exception raised inside the try block, or NoExc
  childState,     \* "none": not started, "running", "exited" (stdout at end of file)
  childOut,       \* the bytes the child has written to its stdout
  childExit,      \* the exit status of the child (-1 until it exits)
  launches,       \* number of calls of Popen
  hostedChecked,  \* the test of line 15 has been made
  retLine,        \* the line whose return statement ended get_version (0: none yet)
  result,         \* the value get_version returned
  propagated,     \* an exception left get_version
  version,        \* module-level version
  release         \* module-level release

vars ==
  <<environ, pc, v, exc, childState, childOut, childExit, launches,
    hostedChecked, retLine, result, propagated, version, release>>

childVars == <<childState, childOut, childExit>>
moduleVars == <<version, release>>

Init ==
  /\ environ \in { e \in Environments : EnvOK(e) }
  /\ pc = "L15"
  /\ v = None
  /\ exc = NoExc
  /\ childState = "none"
  /\ childOut = <<>>
  /\ childExit = -1
  /\ launches = 0
  /\ hostedChecked = FALSE
  /\ retLine = 0
  /\ result = None
  /\ propagated = FALSE
  /\ version = None
  /\ release = None

----------------------------------------------------------------------------
(* get_version *)

\* Line 15: if os.environ.get("READTHEDOCS") == "True":
CheckHosted ==
  /\ pc = "L15"
  /\ hostedChecked' = TRUE
  /\ pc' = IF HostedFlagSet(environ) THEN "L16" ELSE "L21"
  /\ UNCHANGED <<environ, v, exc, childVars, launches, retLine, result,
                 propagated, moduleVars>>

\* Line 16: v = os.environ.get("READTHEDOCS_VERSION")
GetHostedVersion ==
  /\ pc = "L16"
  /\ v' = EnvGet(environ, "READTHEDOCS_VERSION")
  /\ pc' = "L17"
  /\ UNCHANGED <<environ, exc, childVars, launches, hostedChecked, retLine,
                 result, propagated, moduleVars>>

\* Lines 17-18: if v: return v  (otherwise fall through to the try block)
TestHostedVersion_defaults ==
  /\ pc = "L17"
  /\ result' = IF Truthy(v) THEN HostedReturn(v) ELSE latest
  /\ retLine' = 18
  /\ pc' = "returned"
  /\ UNCHANGED <<environ, v, exc, childVars, launches, hostedChecked,
                 propagated, moduleVars>>
TestHostedVersion ==
  /\ pc = "L17"
  /\ IF Truthy(v)
     THEN /\ result' = HostedReturn(v)
          /\ retLine' = 18
          /\ pc' = "returned"
     ELSE /\ pc' = "L21"
          /\ UNCHANGED <<result, retLine>>
  /\ UNCHANGED <<environ, v, exc, childVars, launches, hostedChecked,
                 propagated, moduleVars>>

\* Line 21: pipe = Popen(..., stdout=PIPE, shell=True, universal_newlines=True) succeeds
PopenOk ==
  /\ pc = "L21"
  /\ launches' = launches + 1
  /\ childState' = "running"
  /\ pc' = "L22"
  /\ UNCHANGED <<environ, v, exc, childOut, childExit, hostedChecked, retLine,
                 result, propagated, moduleVars>>

\* Line 21: Popen raises (no child is started)
PopenRaise(e) ==
  /\ pc = "L21"
  /\ launches' = launches + 1
  /\ exc' = e
  /\ pc' = "L24"
  /\ UNCHANGED <<environ, v, childVars, hostedChecked, retLine, result,
                 propagated, moduleVars>>

\* read() without a size returns only at end of file: the child closed its stdout.
ReadReady_nonblocking == childState # "none"
ReadReady == childState = "exited"

\* Line 22: v = (pipe.stdout.read() or "").strip()
ReadOk ==
  /\ pc = "L22"
  /\ ReadReady
  /\ Decodable(childOut)
  /\ v' = Strip(PyOr(TextRead(childOut), <<>>))
  /\ pc' = "L23"
  /\ UNCHANGED <<environ, exc, childVars, launches, hostedChecked, retLine,
                 result, propagated, moduleVars>>

\* Line 22: read() raises because the output cannot be decoded
ReadRaise ==
  /\ pc = "L22"
  /\ ReadReady
  /\ ~Decodable(childOut)
  /\ exc' = "UnicodeDecodeError"
  /\ pc' = "L24"
  /\ UNCHANGED <<environ, v, childVars, launches, hostedChecked, retLine,
                 result, propagated, moduleVars>>

\* Line 23: return v or "latest"
ReturnV ==
  /\ pc = "L23"
  /\ result' = PyOr(v, latest)
  /\ retLine' = 23
  /\ pc' = "returned"
  /\ UNCHANGED <<environ, v, exc, childVars, launches, hostedChecked,
                 propagated, moduleVars>>

\* Lines 24-25: except Exception: return "latest"
ExceptHandler_retry ==
  /\ pc = "L24"
  /\ launches < 3
  /\ pc' = "L21"
  /\ UNCHANGED <<environ, v, exc, childVars, launches, hostedChecked, retLine,
                 result, propagated, moduleVars>>
ExceptHandler ==
  /\ pc = "L24"
  /\ IF Catches(exc)
     THEN /\ result' = latest
          /\ retLine' = 25
          /\ pc' = "returned"
          /\ UNCHANGED propagated
     ELSE /\ propagated' = TRUE
          /\ pc' = "aborted"
          /\ UNCHANGED <<result, retLine>>
  /\ UNCHANGED <<environ, v, exc, childVars, launches, hostedChecked,
                 moduleVars>>

\* Line 27: version = get_version()
AssignVersion ==
  /\ pc = "returned"
  /\ version' = result
  /\ pc' = "L28"
  /\ UNCHANGED <<environ, v, exc, childVars, launches, hostedChecked, retLine,
                 result, propagated, release>>

\* Line 28: release = version
AssignRelease ==
  /\ pc = "L28"
  /\ release' = version
  /\ pc' = "end"
  /\ UNCHANGED <<environ, v, exc, childVars, launches, hostedChecked, retLine,
                 result, propagated, version>>

----------------------------------------------------------------------------
(* The child: sh -c "git rev-parse --abbrev-ref HEAD" *)

\* Exit statuses: 0 success, 128 git failed, 127 the shell did not find git.
ExitStatuses == {0, 127, 128}

\* The child writes one more byte to its standard output.
ChildWrite(b) ==
  /\ childState = "running"
  /\ Len(childOut) < MaxOut
  /\ childOut' = Append(childOut, b)
  /\ UNCHANGED <<environ, pc, v, exc, childState, childExit, launches,
                 hostedChecked, retLine, result, propagated, moduleVars>>

\* The child exits, which closes its standard output; when the shell does not
\* find the tool (127) nothing has been written to standard output.
ChildExit(status) ==
  /\ childState = "running"
  /\ status = 127 => childOut = <<>>
  /\ childState' = "exited"
  /\ childExit' = status
  /\ UNCHANGED <<environ, pc, v, exc, childOut, launches, hostedChecked,
                 retLine, result, propagated, moduleVars>>

----------------------------------------------------------------------------
(* Specifications *)

\* The steps of the interpreter running conf.py.
Interp ==
  \/ CheckHosted
  \/ GetHostedVersion
  \/ TestHostedVersion
  \/ PopenOk
  \/ \E e \in PopenErrors : PopenRaise(e)
  \/ ReadOk
  \/ ReadRaise
  \/ ReturnV
  \/ ExceptHandler
  \/ AssignVersion
  \/ AssignRelease

\* The steps of the child process.
Child ==
  \/ \E b \in Bytes : ChildWrite(b)
  \/ \E s \in ExitStatuses : ChildExit(s)

Next == Interp \/ Child

Spec == Init /\ [][Next]_vars

\* The interpreter is single-threaded and synchronous: it takes its next step
\* whenever one is possible.  Nothing is assumed of the child.
LiveSpec == Init /\ [][Next]_vars /\ WF_vars(Interp)

----------------------------------------------------------------------------
(* Vocabulary of the properties *)

\* get_version has returned to the module level.
Returned == pc \in {"returned", "L28", "end"}

\* The values of the two environment variables (None when unset).
HostedFlag == EnvGet(environ, "READTHEDOCS")
HostedVersion == EnvGet(environ, "READTHEDOCS_VERSION")

\* The hosted version is usable: the flag is "True" and the version is a non-empty string.
HostedUsable ==
  HostedFlag = TrueLiteral /\ HostedVersion # None /\ HostedVersion # <<>>

\* Every character of s is whitespace (the empty string included).
Blank(s) == \A i \in 1..Len(s) : s[i] \in Whitespace

\* Every byte of bs is a whitespace character (the empty output included).
BlankBytes(bs) ==
  \A i \in 1..Len(bs) : bs[i] \in DOMAIN ByteChar /\ ByteChar[bs[i]] \in Whitespace

\* r is s without its leading and trailing whitespace, and s is not blank.
IsTrimOf(r, s) ==
  \E i, j \in 1..Len(s) :
    /\ i <= j
    /\ r = SubSeq(s, i, j)
    /\ s[i] \notin Whitespace
    /\ s[j] \notin Whitespace
    /\ \A k \in 1..(i - 1) : s[k] \in Whitespace
    /\ \A k \in (j + 1)..Len(s) : s[k] \in Whitespace

\* r is what the version-control query stands for: "latest" when the query
\* raised or its output is blank, else the output read in text mode, trimmed.
QueryYields(r) ==
  IF exc # NoExc \/ BlankBytes(childOut)
  THEN r = latest
  ELSE IsTrimOf(r, UniversalNewlines(Decode(childOut)))

----------------------------------------------------------------------------
(* Properties *)

\* C1: when READTHEDOCS is "True" and READTHEDOCS_VERSION is set and
\* non-empty, get_version returns the value of READTHEDOCS_VERSION unchanged.
C1_HostedVerbatim ==
  (Returned /\ HostedUsable) => result = HostedVersion

\* A hosted version with surrounding whitespace has been returned as it is.
C1_Witness ==
  /\ Returned
  /\ HostedFlag = TrueLiteral
  /\ HostedVersion = <<" ", "v", "\n">>
  /\ result = <<" ", "v", "\n">>

\* C2: any failure of the subprocess invocation (Popen raises, the command
\* exits with a non-zero status, or the output is empty) makes get_version
\* return "latest", whatever the command wrote before a non-zero exit.
C2_AnyFailureYieldsLatest ==
  (/\ Returned
   /\ retLine \in {23, 25}
   /\ \/ exc # NoExc
      \/ childState = "exited" /\ (childExit # 0 \/ childOut = <<>>))
  => result = latest

\* C3 as stated: with the flag not set and a successful query with non-blank
\* output, get_version returns the command output with leading and trailing
\* whitespace removed and nothing else changed.
C3_TrimmedRawOutput ==
  (/\ Returned
   /\ HostedFlag # TrueLiteral
   /\ exc = NoExc
   /\ childExit = 0
   /\ ~BlankBytes(childOut))
  => IsTrimOf(result, Decode(childOut))

\* C3 as amended: with the flag not set and a successful query with non-blank
\* output, get_version returns the command output as read in text mode (each
\* "\r\n" and each lone "\r" translated to "\n") with leading and trailing
\* whitespace removed.
C3_TrimmedTextOutput ==
  (/\ Returned
   /\ HostedFlag # TrueLiteral
   /\ exc = NoExc
   /\ childExit = 0
   /\ ~BlankBytes(childOut))
  => IsTrimOf(result, UniversalNewlines(Decode(childOut)))

\* A successful query whose output had whitespace on both sides was returned trimmed.
C3_Witness ==
  /\ Returned
  /\ HostedFlag # TrueLiteral
  /\ childExit = 0
  /\ childOut = <<10, 97, 13>>
  /\ result = <<"a">>

\* C4: when the hosted version is not usable and the query raises (while
\* launching or reading) or yields empty or whitespace-only output,
\* get_version returns "latest".
C4_BothUnavailableYieldsLatest ==
  (/\ Returned
   /\ ~HostedUsable
   /\ (exc # NoExc \/ BlankBytes(childOut)))
  => result = latest

\* A whitespace-only output was read with no usable hosted version.
C4_Witness ==
  /\ Returned
  /\ ~HostedUsable
  /\ exc = NoExc
  /\ childOut = <<13, 10>>
  /\ result = latest

\* C5: the string get_version returns is never empty, and neither are the
\* module-level version and release once assigned.
C5_VersionNonEmpty ==
  /\ Returned => (result # None /\ Len(result) >= 1)
  /\ pc \in {"L28", "end"} => (version # None /\ Len(version) >= 1)
  /\ pc = "end" => (release # None /\ Len(release) >= 1)

\* The configuration finished loading although the flag was "True", the hosted
\* version was the empty string and the query produced no output.
C5_Witness ==
  /\ pc = "end"
  /\ HostedFlag = TrueLiteral
  /\ HostedVersion = <<>>
  /\ childState = "exited"
  /\ childOut = <<>>
  /\ Len(release) >= 1

\* C6: get_version never lets an exception reach its caller; when it ends it
\* has returned a string.
C6_NoPropagation ==
  /\ ~propagated
  /\ pc # "aborted"
  /\ Returned => result # None

\* Reading the output raised, and get_version still returned a string.
C6_Witness ==
  /\ Returned
  /\ exc = "UnicodeDecodeError"
  /\ result = latest

\* C7 as stated: when the flag is "True" but READTHEDOCS_VERSION is unset or
\* empty, get_version returns "latest".
C7_FlagSetNoVersionYieldsLatest ==
  (/\ Returned
   /\ HostedFlag = TrueLiteral
   /\ (HostedVersion = None \/ HostedVersion = <<>>))
  => result = latest

\* C7 as amended: when the flag is "True" but READTHEDOCS_VERSION is unset or
\* empty, get_version runs the version-control query and returns its trimmed
\* output, or "latest" when the query raises or its output is blank.
C7_FlagSetNoVersionFallsThrough ==
  (/\ Returned
   /\ HostedFlag = TrueLiteral
   /\ (HostedVersion = None \/ HostedVersion = <<>>))
  => (launches = 1 /\ retLine \in {23, 25} /\ QueryYields(result))

\* The flag was "True", the hosted version empty, and the branch name was returned.
C7_Witness ==
  /\ Returned
  /\ HostedFlag = TrueLiteral
  /\ HostedVersion = <<>>
  /\ result = <<"a">>

\* C8: Popen is called at most once, only after the test of the hosted flag,
\* always when the flag is not set, and never when the hosted version is returned.
C8_LinearChain ==
  /\ launches <= 1
  /\ launches > 0 => hostedChecked
  /\ childState # "none" => launches = 1
  /\ (Returned /\ HostedFlag # TrueLiteral) => launches = 1
  /\ retLine = 18 => (launches = 0 /\ childState = "none")

\* A run without the flag has returned after exactly one launch.
C8_Witness ==
  /\ Returned
  /\ HostedFlag = None
  /\ launches = 1
  /\ hostedChecked

\* C9: unless the started child stays running forever (never closes its
\* standard output), get_version eventually returns; if the child does stay
\* running forever, get_version stays at the read of line 22 forever.
C9_Termination ==
  /\ <>[](childState = "running") \/ <>Returned
  /\ (<>[](childState = "running")) => <>[](pc = "L22")

\* The child closed its output and the configuration finished loading.
C9_Witness ==
  /\ pc = "end"
  /\ childState = "exited"
  /\ retLine = 23

\* C10: when READTHEDOCS is anything but the string "True" (unset, empty,
\* "true", "1", "TRUE"), READTHEDOCS_VERSION is ignored and the result is that
\* of the version-control query or "latest".
C10_FlagExactlyTrue ==
  (Returned /\ HostedFlag # TrueLiteral)
  => (launches = 1 /\ retLine \in {23, 25} /\ QueryYields(result))

\* The flag was "true", the hosted version "v", and the query's output was returned.
C10_Witness ==
  /\ Returned
  /\ HostedFlag = <<"t", "r", "u", "e">>
  /\ HostedVersion = <<"v">>
  /\ result = <<"a">>

====
